---- MODULE Spec2Model ----
(***************************************************************************)
(* State-machine model of mcp_helper.py: the MCP request router            *)
(* (handle_request, handle_tool_call) and the search_console_query         *)
(* pipeline (get_search_console_data, clean_query, create_gsc_service_obj, *)
(* make_gsc_api_request, format_search_console_data).                      *)
(*                                                                         *)
(* Representation.                                                         *)
(*  - A Python str that the code edits or parses is a sequence of tokens:  *)
(*    Ch(c) is one character, Doc(v) is the text of one JSON value v (it   *)
(*    holds no grave accent).  Fixed message texts are sequences of string *)
(*    segments.                                                            *)
(*  - A Python dict is a TLA+ record; a missing key is a missing field.    *)
(*    Values whose Python type matters are tagged: Dict(d), List(l),       *)
(*    Str(s).                                                              *)
(*  - An ISO date "YYYY-MM-DD" is its day ordinal inside the modelled      *)
(*    window 1..MaxDay.                                                    *)
(*  - ctr is counted in units of 0.00001 and position in units of 0.001;  *)
(*    the printed CTR (%) and position are counted in hundredths.          *)
(*  - A call of the handler runs up to its next blocking network call; the *)
(*    network's answer is the input of the next step.                      *)
(***************************************************************************)
EXTENDS Integers, Sequences, FiniteSets, TLC

VARIABLES
    env,             \* the process environment (os.getenv)
    gsc_base64_key,  \* module global, line 15
    site_url,        \* module global, line 18
    pc,              \* per invocation: "idle", "llm", "gsc", "done"
    req,             \* per invocation: the method and params it was called with
    loc,             \* per invocation: locals of get_search_console_data
    calls,           \* per invocation: network calls issued, in order
    recv,            \* per invocation: network answers and clock readings received
    trace,           \* per invocation: pipeline steps executed, in order
    out              \* per invocation: what handle_request returned or raised

vars == <<env, gsc_base64_key, site_url, pc, req, loc, calls, recv, trace, out>>

\* ------------------------------------------------------------------ bounds

MaxDay == 3
MaxRows == 2

\* ------------------------------------------------------- Python values

None == [py |-> "None"]
Dict(d) == [py |-> "dict", d |-> d]
List(l) == [py |-> "list", l |-> l]
\* a str the code parses (a token sequence) and a str it only passes on
Str(s) == [py |-> "str", s |-> s]
Text(t) == [py |-> "str", text |-> t]

\* dict.get(key, default)
get(d, key, default) == IF key \in DOMAIN d THEN d[key] ELSE default

\* "not v" for the values the code tests: None and the empty string
Falsy(v) == v.py = "None" \/ (v.py = "str" /\ v.text = "")

\* str(v) inside an f-string
py_str(v) == IF v.py = "None" THEN "None" ELSE v.text

\* type(v).__name__
type_name(v) == IF v.py = "None" THEN "NoneType" ELSE v.py

Ch(c) == [c |-> c]
Doc(v) == [json |-> v]
Chars(cs) == [k \in 1..Len(cs) |-> Ch(cs[k])]

Raise(exc, msg) == [kind |-> "raise", exc |-> exc, msg |-> msg]
Return(v) == [kind |-> "return", value |-> v]
Ok(v) == [kind |-> "ok", value |-> v]

\* str(KeyError(k)) is the repr of the key
KeyError(k) == Raise("KeyError", <<"'", k, "'">>)

\* str.replace(old, ""): every non-overlapping occurrence, left to right
RECURSIVE str_remove(_, _)
str_remove(s, old) ==
    IF Len(s) < Len(old) THEN s
    ELSE IF SubSeq(s, 1, Len(old)) = old
         THEN str_remove(SubSeq(s, Len(old) + 1, Len(s)), old)
         ELSE <<Head(s)>> \o str_remove(Tail(s), old)

IsSpace(t) == "c" \in DOMAIN t /\ t.c \in {" ", "\n"}

RECURSIVE lstrip(_)
lstrip(s) == IF s # <<>> /\ IsSpace(Head(s)) THEN lstrip(Tail(s)) ELSE s

RECURSIVE rstrip(_)
rstrip(s) ==
    IF s # <<>> /\ IsSpace(s[Len(s)]) THEN rstrip(SubSeq(s, 1, Len(s) - 1)) ELSE s

\* json.loads: one JSON value with optional surrounding whitespace, else
\* json.JSONDecodeError (a ValueError)
json_loads(s) ==
    LET body == rstrip(lstrip(s)) IN
    IF Len(body) = 1 /\ "json" \in DOMAIN body[1]
    THEN Ok(body[1].json)
    ELSE Raise("JSONDecodeError", <<"Expecting value">>)

\* requests.exceptions.RequestException and its subclasses
IsRequestException(exc) ==
    exc \in {"ConnectTimeout", "ConnectionError", "HTTPError", "requests.JSONDecodeError"}

\* ------------------------------------------------------- clean_query

\* the grave accent character, written out
BT == "GRAVE"

FenceJson == Chars(<<BT, BT, BT, "j", "s", "o", "n">>)
Fence == Chars(<<BT, BT, BT>>)

\* lines 254-259: the result of the first replace is computed and dropped;
\* what is returned is the input with only the three-accent fence removed
clean_query(generated_api_query) ==
    LET search_string == FenceJson
        search_string_2 == Fence
        clean_response_once == str_remove(generated_api_query, search_string)
        clean_response_final == str_remove(generated_api_query, search_string_2)
    IN clean_response_final

\* ------------------------------------------------------- router results

\* lines 48-62
handle_initialize ==
    [protocolVersion |-> "2024-11-05",
     serverInfo |-> [name |-> "search_console_mcp", version |-> "0.1.0"],
     capabilities |-> [tools |-> <<>>]]

\* lines 65-89
handle_tools_list ==
    [tools |-> <<[name |-> "search_console_query",
                  description |-> "a tool that helps translate natural language user requests into Google Search Console API requests",
                  annotations |-> [read_only |-> FALSE],
                  inputSchema |-> [type |-> "object",
                                   properties |-> [query |-> [type |-> "string"]],
                                   required |-> <<"query">>,
                                   additionalProperties |-> FALSE]]>>]

TextBlock(text) == <<[type |-> "text", text |-> text]>>

\* lines 102-105
invalid_arguments_result ==
    [isError |-> TRUE,
     content |-> TextBlock(<<"Invalid arguments: ", "expected object or JSON string.">>)]

\* line 108
tool_not_found_result(tool_name) ==
    [isError |-> TRUE, content |-> TextBlock(<<"Tool not found: ", py_str(tool_name)>>)]

\* lines 112-113: except Exception as e
tool_error_narrow(e) ==
    IF e.exc = "ValueError"
    THEN Return([isError |-> TRUE,
                 content |-> TextBlock(<<"Tool error (search_console_query): ">> \o e.msg)])
    ELSE e

handle_tool_call_except(e) ==
    Return([isError |-> TRUE,
            content |-> TextBlock(<<"Tool error (search_console_query): ">> \o e.msg)])

\* lines 115-123: the report is a str and is passed on as it is; a result
\* without api_response gives the empty text
handle_tool_call_result_flags_missing(result) ==
    IF "api_response" \notin DOMAIN result
    THEN Return([isError |-> TRUE,
                 content |-> TextBlock(<<"Tool error (search_console_query): ",
                                         "no api_response">>)])
    ELSE Return([content |-> TextBlock(result.api_response)])

handle_tool_call_result(result) ==
    LET text_value == get(result, "api_response", <<>>) IN
    Return([content |-> TextBlock(text_value)])

\* lines 110-123
handle_tool_call_finish(o) ==
    IF o.kind = "raise" THEN handle_tool_call_except(o)
    ELSE handle_tool_call_result(o.value)

\* lines 94-108: up to the call of get_search_console_data
handle_tool_call_skip_decode(params) ==
    LET tool_name == get(params, "name", None)
        arguments == get(params, "arguments", Dict(<<>>))
    IN IF tool_name # Text("search_console_query")
       THEN Return(tool_not_found_result(tool_name))
       ELSE [kind |-> "tool", arguments |-> arguments]

handle_tool_call_begin(params) ==
    LET tool_name == get(params, "name", None)
        arguments == get(params, "arguments", Dict(<<>>))
        decoded == IF arguments.py = "str"
                   THEN json_loads(arguments.s)
                   ELSE Ok(arguments)
    IN IF decoded.kind = "raise" THEN Return(invalid_arguments_result)
       ELSE IF tool_name # Text("search_console_query")
       THEN Return(tool_not_found_result(tool_name))
       ELSE [kind |-> "tool", arguments |-> decoded.value]

\* ------------------------------------------------------- get_search_console_data

\* lines 262-448: the prompt embeds the clock reading and site_url.split(":")[1];
\* site_url is held as its ":"-separated fields
gsc_system_prompt(site, now) ==
    [time |-> now, property |-> <<"https://", site[2]>>, rules |-> "RPG"]

\* lines 150-198: up to requests.post
get_search_console_data_default_query(arguments, environ, site, now) ==
    IF arguments.py # "dict"
    THEN Raise("AttributeError",
               <<"'", type_name(arguments), "' object has no attribute 'get'">>)
    ELSE LET q == get(arguments.d, "query", None)
             query == IF Falsy(q) THEN Text("top queries") ELSE q
             gemini_api_key == environ.GEMINI_API_KEY
         IN IF Falsy(gemini_api_key)
            THEN Raise("ValueError", <<"GEMINI_API_KEY environment variable is not set">>)
            ELSE [kind |-> "post",
                  query |-> query,
                  call |-> [to |-> "gemini",
                            key |-> gemini_api_key,
                            system_instruction |-> gsc_system_prompt(site, now),
                            contents |-> query,
                            timeout |-> 30]]

get_search_console_data_begin(arguments, environ, site, now) ==
    IF arguments.py # "dict"
    THEN Raise("AttributeError",
               <<"'", type_name(arguments), "' object has no attribute 'get'">>)
    ELSE LET query == get(arguments.d, "query", None)
             gemini_api_key == environ.GEMINI_API_KEY
         IN IF Falsy(query)
            THEN Raise("ValueError", <<"query is required">>)
            ELSE IF Falsy(gemini_api_key)
            THEN Raise("ValueError", <<"GEMINI_API_KEY environment variable is not set">>)
            ELSE [kind |-> "post",
                  query |-> query,
                  call |-> [to |-> "gemini",
                            key |-> gemini_api_key,
                            system_instruction |-> gsc_system_prompt(site, now),
                            contents |-> query,
                            timeout |-> 30]]

\* lines 241-244
gemini_except(e) ==
    IF IsRequestException(e.exc)
    THEN Raise("Exception", <<"Gemini API request failed: ">> \o e.msg)
    ELSE Raise("Exception", <<"Error processing Gemini API response: ">> \o e.msg)


\* ------------------------------------------------------- credentials

\* the one environment value that base64-decodes to a service-account key
GoodKey == Text("base64-service-account-json")

\* lines 453-474: the parameter is ignored, the module global is read
credentials_from_base64_env(base64_key, scopes, g_key) ==
    LET encoded_key == g_key IN
    IF Falsy(encoded_key)
    THEN Raise("ValueError",
               <<"Environment variable '", py_str(encoded_key), "' not found or is empty.">>)
    ELSE IF encoded_key # GoodKey
    THEN Raise("binascii.Error", <<"Incorrect padding">>)
    ELSE Ok([service_account |-> encoded_key, scopes |-> scopes])

\* line 487 binds the local name base64_key; no global statement names
\* gsc_base64_key, so the module global after the call is the one before it
create_gsc_service_obj_caches_key(g_key) == Text("decoded-service-account-json")

create_gsc_service_obj_global(g_key) == g_key

\* lines 477-501
create_gsc_service_obj(base64_key, g_key) ==
    LET base64_key_local == g_key
        scope == <<"https://www.googleapis.com/auth/webmasters.readonly">>
        credentials == credentials_from_base64_env(base64_key_local, scope, g_key)
    IN IF credentials.kind = "raise" THEN credentials
       ELSE Ok([api |-> "webmasters", version |-> "v3", credentials |-> credentials.value])

\* ------------------------------------------------------- after requests.post

Stage(outcome, locals, steps) == [outcome |-> outcome, locals |-> locals, steps |-> steps]

\* lines 198-239, inside the try: from the answer of requests.post up to the
\* reporting call.  resp is what requests.post and response.json() gave.
try_after_post(resp, query, g_key, site) ==
    IF resp.kind = "exception" THEN Stage(Raise(resp.exc, resp.msg), <<>>, <<>>)
    ELSE IF resp.status # 200
    THEN Stage(Raise("HTTPError", <<"Server Error">>), <<>>, <<>>)
    ELSE IF resp.json.kind = "raise" THEN Stage(resp.json, <<>>, <<>>)
    ELSE
    LET result == resp.json.value IN
    IF ~("candidates" \in DOMAIN result /\ Len(result.candidates) > 0)
    THEN Stage(Return([api_query |-> "No results generated from Gemini API",
                       query |-> query,
                       status |-> "no_results"]), <<>>, <<>>)
    ELSE IF "content" \notin DOMAIN result.candidates[1]
    THEN Stage(KeyError("content"), <<>>, <<>>)
    ELSE
    LET generated_api_query == result.candidates[1].content.parts[1].text
        clean_api_query == clean_query(generated_api_query)
        parsed == json_loads(clean_api_query)
        l1 == [generated_api_query |-> generated_api_query,
               clean_api_query |-> clean_api_query]
    IN
    IF parsed.kind = "raise" THEN Stage(parsed, l1, <<"clean_query", "json_loads">>)
    ELSE
    LET api_query_obj == parsed.value
        l2 == [generated_api_query |-> generated_api_query,
               clean_api_query |-> clean_api_query,
               api_query_obj |-> api_query_obj]
        s2 == <<"clean_query", "json_loads", "dates">>
    IN
    IF api_query_obj.py # "dict"
    THEN Stage(Raise("TypeError", <<"list indices must be integers or slices, not str">>),
               l2, s2)
    ELSE IF "startDate" \notin DOMAIN api_query_obj.d THEN Stage(KeyError("startDate"), l2, s2)
    ELSE IF "endDate" \notin DOMAIN api_query_obj.d THEN Stage(KeyError("endDate"), l2, s2)
    ELSE
    LET start_date == api_query_obj.d.startDate
        end_date == api_query_obj.d.endDate
        service == create_gsc_service_obj(g_key, g_key)
        l3 == [generated_api_query |-> generated_api_query,
               clean_api_query |-> clean_api_query,
               api_query_obj |-> api_query_obj,
               start_date |-> start_date,
               end_date |-> end_date]
        s3 == s2 \o <<"create_gsc_service_obj">>
    IN
    IF service.kind = "raise" THEN Stage(service, l3, s3)
    ELSE Stage([kind |-> "execute",
                call |-> [to |-> "searchanalytics",
                          credentials |-> service.value.credentials,
                          siteUrl |-> site,
                          body |-> api_query_obj.d]],
               l3, s3)


\* ------------------------------------------------------- make_gsc_api_request

\* lines 522-532 for one row: the first failing subscript, or "ok".  The dict
\* built from the row is appended to a list that is never returned.
row_cleaning(row, payload) ==
    IF "dimensions" \notin DOMAIN payload THEN KeyError("dimensions")
    ELSE IF Len(payload.dimensions) > 0 /\ "keys" \notin DOMAIN row THEN KeyError("keys")
    ELSE IF Len(payload.dimensions) > 0 /\ Len(row.keys) < Len(payload.dimensions)
    THEN Raise("IndexError", <<"list index out of range">>)
    ELSE Ok(row)

RECURSIVE rows_cleaning(_, _)
rows_cleaning(rows, payload) ==
    IF rows = <<>> THEN Ok(rows)
    ELSE LET first == row_cleaning(Head(rows), payload) IN
         IF first.kind = "raise" THEN first ELSE rows_cleaning(Tail(rows), payload)

\* lines 504-534, after execute() returned response: the raw response is
\* what is returned
make_gsc_api_request(response, payload) ==
    IF "rows" \notin DOMAIN response THEN KeyError("rows")
    ELSE LET cleaned == rows_cleaning(response.rows, payload) IN
         IF cleaned.kind = "raise" THEN cleaned ELSE Ok(response)

\* ------------------------------------------------------- format_search_console_data

\* sum(row[field] for row in rows): a left fold from 0
RECURSIVE py_sum_from(_, _, _)
py_sum_from(acc, rows, field) ==
    IF rows = <<>> THEN acc
    ELSE py_sum_from(acc + Head(rows)[field], Tail(rows), field)

py_sum_skip_first(rows, field) ==
    IF rows = <<>> THEN 0 ELSE py_sum_from(0, Tail(rows), field)

py_sum(rows, field) == py_sum_from(0, rows, field)

\* round(x, 2) of a value held in thousandths of the printed unit; the
\* modelled values are never ties
py_round2(x) == (x + 5) \div 10

\* lines 575-580: one table line, or the first failing subscript
table_row_last_key(row) ==
    IF "keys" \notin DOMAIN row THEN KeyError("keys")
    ELSE IF Len(row.keys) = 0 THEN Raise("IndexError", <<"list index out of range">>)
    ELSE Ok(<<row.keys[Len(row.keys)], row.clicks, row.impressions,
              py_round2(row.ctr), py_round2(row.position)>>)

table_row(row) ==
    IF "keys" \notin DOMAIN row THEN KeyError("keys")
    ELSE IF Len(row.keys) = 0 THEN Raise("IndexError", <<"list index out of range">>)
    ELSE LET date == row.keys[1]
             clicks == row.clicks
             impressions == row.impressions
             ctr == py_round2(row.ctr)
             position == py_round2(row.position)
         IN Ok(<<date, clicks, impressions, ctr, position>>)

\* lines 573-580: the loop appends one line per row, in order
RECURSIVE table_rows_from(_, _)
table_rows_from(done, rows) ==
    IF rows = <<>> THEN Ok(done)
    ELSE LET line == table_row(Head(rows)) IN
         IF line.kind = "raise" THEN line
         ELSE table_rows_from(Append(done, line.value), Tail(rows))

\* lines 551-618.  ctr is held in units of 0.00001 and position in units of
\* 0.001.  A mean is kept as the quotient the code prints to two decimals.
format_search_console_data(data, query, start_date, end_date, api_query_obj, timestamp) ==
    LET rows == data.rows
        total_clicks == py_sum(rows, "clicks")
        total_impressions == py_sum(rows, "impressions")
    IN
    IF Len(rows) = 0 THEN Raise("ZeroDivisionError", <<"division by zero">>)
    ELSE
    LET avg_ctr == [num |-> py_sum(rows, "ctr"), den |-> Len(rows)]
        avg_position == [num |-> py_sum(rows, "position"), den |-> Len(rows)]
        summary_section == [total_impressions |-> total_impressions,
                            total_clicks |-> total_clicks,
                            avg_ctr |-> avg_ctr,
                            avg_position |-> avg_position]
        table_rows == table_rows_from(<<>>, rows)
    IN
    IF table_rows.kind = "raise" THEN table_rows
    ELSE Ok(<<[title |-> "### Search Console Data ###",
               timestamp |-> timestamp,
               start_date |-> start_date,
               end_date |-> end_date,
               query |-> py_str(query),
               api_query_obj |-> api_query_obj,
               summary_section |-> summary_section,
               table_header |-> "Date | Clicks | Impressions | CTR (%) | Average Position",
               table_body |-> table_rows.value]>>)

\* lines 223-233, inside the try: from the answer of execute() to the return
try_after_execute(resp, l, query, timestamp) ==
    IF resp.kind = "exception" THEN Stage(Raise(resp.exc, resp.msg), l, <<>>)
    ELSE
    LET api_response == make_gsc_api_request(resp.response, l.api_query_obj.d) IN
    IF api_response.kind = "raise" THEN Stage(api_response, l, <<>>)
    ELSE
    LET llm_response == format_search_console_data(api_response.value, query,
                            l.start_date, l.end_date, l.api_query_obj.d, timestamp)
        s == <<"format_search_console_data">>
    IN
    IF llm_response.kind = "raise" THEN Stage(llm_response, l, s)
    ELSE Stage(Return([api_response |-> llm_response.value,
                       api_query |-> l.generated_api_query,
                       user_query |-> query,
                       status |-> "success"]), l, s)


\* ------------------------------------------------------- handle_request

\* lines 93-113 and 150-198: handle_tool_call up to requests.post
handle_tool_call(params, environ, site, now) ==
    LET b == handle_tool_call_begin(params) IN
    IF b.kind = "return" THEN Stage(b, <<>>, <<>>)
    ELSE LET g == get_search_console_data_begin(b.arguments, environ, site, now) IN
         IF g.kind = "raise"
         THEN Stage(handle_tool_call_finish(g), [gscd |-> g], <<>>)
         ELSE Stage(g, [query |-> g.query], <<"requests.post">>)

\* lines 24-41, up to the first network call of the invocation
handle_request_all_methods(method, params, environ, site, now) ==
    IF method = "initialize" THEN Stage(Return(handle_initialize), <<>>, <<>>)
    ELSE IF method = "tools/list" THEN Stage(Return(handle_tools_list), <<>>, <<>>)
    ELSE handle_tool_call(params, environ, site, now)

handle_request(method, params, environ, site, now) ==
    IF method = "initialize" THEN Stage(Return(handle_initialize), <<>>, <<>>)
    ELSE IF method = "tools/list" THEN Stage(Return(handle_tools_list), <<>>, <<>>)
    ELSE IF method = "tools/call" THEN handle_tool_call(params, environ, site, now)
    ELSE Stage(Raise("ValueError", <<"Method not found: ", method>>), <<>>, <<>>)

\* ------------------------------------------------------- inputs

Methods == {"initialize", "tools/list", "tools/call",
            "notifications/initialized", "resources/list"}

Queries == {Text("Show me my top 25 queries from last month")}

ArgumentObjects ==
    {Dict([query |-> q]) : q \in Queries \cup {Text("")}}
    \cup {Dict([limit |-> Text("25")])}

ArgumentValues ==
    ArgumentObjects
    \cup {Str(<<Ch(" "), Doc(a)>>) : a \in ArgumentObjects \cup {List(<<>>)}}
    \cup {Str(Chars(<<"{", "q">>)), None}

ToolNames == {Text("search_console_query"), Text("nonexistent_tool")}

ToolParams ==
    {[name |-> n, arguments |-> a] : n \in ToolNames, a \in ArgumentValues}
    \cup {[name |-> n] : n \in ToolNames}
    \cup {[arguments |-> a] : a \in ArgumentValues}

Clock == {"2025-11-03 09:00:00", "2025-11-03 09:00:07"}

Days == 1..MaxDay
DimensionLists == {<<"query">>, <<"date">>, <<"date", "page">>, <<>>}
RowLimits == {1, 25}

StructuredQueries ==
    {[startDate |-> sd, endDate |-> ed, dimensions |-> d, rowLimit |-> r, startRow |-> 0] :
        sd \in Days, ed \in Days, d \in DimensionLists, r \in RowLimits}

\* what the model may emit as JSON: structured queries (start not after end),
\* objects that lack a field, and a value that is no object
ModelValues ==
    {Dict(q) : q \in {x \in StructuredQueries : x.startDate <= x.endDate}}
    \cup {Dict([startDate |-> 1, dimensions |-> <<"query">>, rowLimit |-> 25]),
          Dict([endDate |-> 1, dimensions |-> <<"query">>]),
          Dict([startDate |-> 1, endDate |-> 2, rowLimit |-> 25, startRow |-> 0]),
          List(<<>>)}

Bare(v) == <<Doc(v)>>
FencedJson(v) == FenceJson \o <<Ch("\n"), Doc(v), Ch("\n")>> \o Fence
Fenced(v) == Fence \o <<Ch("\n"), Doc(v), Ch("\n")>> \o Fence

ModelTexts ==
    {Bare(v) : v \in ModelValues}
    \cup {FencedJson(v) : v \in ModelValues}
    \cup {Fenced(v) : v \in ModelValues}
    \cup {Chars(<<"n", "o">>)}

Candidates(t) == [candidates |-> <<[content |-> [parts |-> <<[text |-> t]>>]]>>]

LlmFailures ==
    {[kind |-> "exception", exc |-> "ConnectTimeout", msg |-> <<"timed out">>],
     [kind |-> "exception", exc |-> "ConnectionError", msg |-> <<"refused">>],
     [kind |-> "http", status |-> 500, json |-> Ok([error |-> "internal"])],
     [kind |-> "http", status |-> 200,
      json |-> Raise("requests.JSONDecodeError", <<"Expecting value">>)],
     [kind |-> "http", status |-> 200, json |-> Raise("ValueError", <<"Expecting value">>)],
     [kind |-> "http", status |-> 200, json |-> Ok([promptFeedback |-> "blocked"])],
     [kind |-> "http", status |-> 200, json |-> Ok([candidates |-> <<>>])],
     [kind |-> "http", status |-> 200,
      json |-> Ok([candidates |-> <<[finishReason |-> "MAX_TOKENS"]>>])]}

LlmResponses ==
    LlmFailures
    \cup {[kind |-> "http", status |-> 200, json |-> Ok(Candidates(t))] : t \in ModelTexts}

\* rows as the reporting API counts them
RowPool ==
    <<[keys |-> <<"k1", "p1">>, clicks |-> 3, impressions |-> 40,
       ctr |-> 7500, position |-> 1250],
      [keys |-> <<"k2", "p2">>, clicks |-> 0, impressions |-> 7,
       ctr |-> 0, position |-> 10334],
      [keys |-> <<"k3", "p3">>, clicks |-> 12, impressions |-> 100,
       ctr |-> 12003, position |-> 3257]>>

Picks == UNION {[1..n -> 1..Len(RowPool)] : n \in 0..MaxRows}

\* the API answers with one key per requested dimension, and with no keys
\* field when no dimension was requested
api_row(r, body) ==
    IF "dimensions" \in DOMAIN body /\ Len(body.dimensions) > 0
    THEN [keys |-> SubSeq(r.keys, 1, Len(body.dimensions)), clicks |-> r.clicks,
          impressions |-> r.impressions, ctr |-> r.ctr, position |-> r.position]
    ELSE [clicks |-> r.clicks, impressions |-> r.impressions,
          ctr |-> r.ctr, position |-> r.position]

GscResponses(body) ==
    {[kind |-> "exception", exc |-> "HttpError", msg |-> <<"403 Forbidden">>],
     [kind |-> "ok", response |-> [responseAggregationType |-> "auto"]]}
    \cup {[kind |-> "ok",
           response |-> [rows |-> [k \in 1..Len(pick) |-> api_row(RowPool[pick[k]], body)],
                         responseAggregationType |-> "auto"]] : pick \in Picks}

Envs ==
    {[GEMINI_API_KEY |-> g, SEARCH_CONSOLE_KEY |-> k] :
        g \in {None, Text("gemini-key")},
        k \in {None, Text("not base64"), GoodKey}}

\* ------------------------------------------------------- actions

Merge(a, b) == [k \in DOMAIN a \cup DOMAIN b |-> IF k \in DOMAIN b THEN b[k] ELSE a[k]]

\* lines 14-18: the module globals are set when the module is loaded
InitFor(T) ==
    /\ env \in Envs
    /\ gsc_base64_key = env.SEARCH_CONSOLE_KEY
    /\ site_url = <<"sc-domain", "www.yourdomain.ai">>
    /\ pc = [i \in T |-> "idle"]
    /\ req = [i \in T |-> <<>>]
    /\ loc = [i \in T |-> <<>>]
    /\ calls = [i \in T |-> <<>>]
    /\ recv = [i \in T |-> <<>>]
    /\ trace = [i \in T |-> <<>>]
    /\ out = [i \in T |-> [kind |-> "none"]]

\* handle_request is called; it runs until it returns, raises, or blocks in
\* requests.post (line 198)
HandleRequest(i, method, params, now) ==
    /\ pc[i] = "idle"
    /\ LET st == handle_request(method, params, env, site_url, now)
           r == st.outcome
       IN
       /\ req' = [req EXCEPT ![i] = [method |-> method, params |-> params]]
       /\ loc' = [loc EXCEPT ![i] = st.locals]
       /\ trace' = [trace EXCEPT ![i] = st.steps]
       /\ IF r.kind = "post"
          THEN /\ pc' = [pc EXCEPT ![i] = "llm"]
               /\ calls' = [calls EXCEPT ![i] = <<r.call>>]
               /\ recv' = [recv EXCEPT ![i] = <<[clock |-> now]>>]
               /\ out' = out
          ELSE /\ pc' = [pc EXCEPT ![i] = "done"]
               /\ out' = [out EXCEPT ![i] = r]
               /\ UNCHANGED <<calls, recv>>
    /\ UNCHANGED <<env, gsc_base64_key, site_url>>

\* requests.post answers (lines 198-223); the code runs on until it returns,
\* raises, or blocks in execute() (line 517)
LlmRespond_retries_post(i, resp) ==
    /\ pc[i] = "llm"
    /\ LET st == try_after_post(resp, loc[i].query, gsc_base64_key, site_url)
           o == st.outcome
       IN
       /\ recv' = [recv EXCEPT ![i] = Append(@, resp)]
       /\ gsc_base64_key' =
              IF "create_gsc_service_obj" \in {st.steps[k] : k \in 1..Len(st.steps)}
              THEN create_gsc_service_obj_global(gsc_base64_key)
              ELSE gsc_base64_key
       /\ IF resp.kind = "exception" /\ Len(calls[i]) = 1
          THEN /\ calls' = [calls EXCEPT ![i] = Append(@, @[1])]
               /\ trace' = [trace EXCEPT ![i] = Append(@, "requests.post")]
               /\ UNCHANGED <<pc, loc, out>>
          ELSE IF o.kind = "execute"
          THEN /\ pc' = [pc EXCEPT ![i] = "gsc"]
               /\ loc' = [loc EXCEPT ![i] = Merge(@, st.locals)]
               /\ calls' = [calls EXCEPT ![i] = Append(@, o.call)]
               /\ trace' = [trace EXCEPT ![i] = @ \o st.steps \o <<"execute">>]
               /\ out' = out
          ELSE LET g == IF o.kind = "raise" THEN gemini_except(o) ELSE o IN
               /\ pc' = [pc EXCEPT ![i] = "done"]
               /\ loc' = [loc EXCEPT ![i] = Merge(Merge(@, st.locals), [gscd |-> g])]
               /\ trace' = [trace EXCEPT ![i] = @ \o st.steps]
               /\ out' = [out EXCEPT ![i] = handle_tool_call_finish(g)]
               /\ calls' = calls
    /\ UNCHANGED <<env, site_url, req>>

LlmRespond(i, resp) ==
    /\ pc[i] = "llm"
    /\ LET st == try_after_post(resp, loc[i].query, gsc_base64_key, site_url)
           o == st.outcome
       IN
       /\ recv' = [recv EXCEPT ![i] = Append(@, resp)]
       /\ gsc_base64_key' =
              IF "create_gsc_service_obj" \in {st.steps[k] : k \in 1..Len(st.steps)}
              THEN create_gsc_service_obj_global(gsc_base64_key)
              ELSE gsc_base64_key
       /\ IF o.kind = "execute"
          THEN /\ pc' = [pc EXCEPT ![i] = "gsc"]
               /\ loc' = [loc EXCEPT ![i] = Merge(@, st.locals)]
               /\ calls' = [calls EXCEPT ![i] = Append(@, o.call)]
               /\ trace' = [trace EXCEPT ![i] = @ \o st.steps \o <<"execute">>]
               /\ out' = out
          ELSE LET g == IF o.kind = "raise" THEN gemini_except(o) ELSE o IN
               /\ pc' = [pc EXCEPT ![i] = "done"]
               /\ loc' = [loc EXCEPT ![i] = Merge(Merge(@, st.locals), [gscd |-> g])]
               /\ trace' = [trace EXCEPT ![i] = @ \o st.steps]
               /\ out' = [out EXCEPT ![i] = handle_tool_call_finish(g)]
               /\ calls' = calls
    /\ UNCHANGED <<env, site_url, req>>

\* execute() answers (lines 517-534, 226-233, 115-123); the invocation ends
GscRespond(i, resp, now) ==
    /\ pc[i] = "gsc"
    /\ LET st == try_after_execute(resp, loc[i], loc[i].query, now)
           o == st.outcome
           g == IF o.kind = "raise" THEN gemini_except(o) ELSE o
       IN
       /\ recv' = [recv EXCEPT ![i] =
                     IF "format_search_console_data" \in {st.steps[k] : k \in 1..Len(st.steps)}
                     THEN @ \o <<resp, [clock |-> now]>>
                     ELSE Append(@, resp)]
       /\ pc' = [pc EXCEPT ![i] = "done"]
       /\ loc' = [loc EXCEPT ![i] = Merge(@, [gscd |-> g])]
       /\ trace' = [trace EXCEPT ![i] = @ \o st.steps]
       /\ out' = [out EXCEPT ![i] = handle_tool_call_finish(g)]
    /\ UNCHANGED <<env, gsc_base64_key, site_url, req, calls>>

\* the caller has the result; the invocation's frame is gone
Finish(i) ==
    /\ pc[i] = "done"
    /\ pc' = [pc EXCEPT ![i] = "idle"]
    /\ req' = [req EXCEPT ![i] = <<>>]
    /\ loc' = [loc EXCEPT ![i] = <<>>]
    /\ calls' = [calls EXCEPT ![i] = <<>>]
    /\ recv' = [recv EXCEPT ![i] = <<>>]
    /\ trace' = [trace EXCEPT ![i] = <<>>]
    /\ out' = [out EXCEPT ![i] = [kind |-> "none"]]
    /\ UNCHANGED <<env, gsc_base64_key, site_url>>

\* ------------------------------------------------------- one invocation at a time

Threads == {1}

Init == InitFor(Threads)

Next ==
    \E i \in Threads :
        \/ \E m \in Methods, p \in ToolParams, now \in Clock : HandleRequest(i, m, p, now)
        \/ \E resp \in LlmResponses : LlmRespond(i, resp)
        \/ /\ pc[i] = "gsc"
           /\ \E resp \in GscResponses(calls[i][2].body), now \in Clock :
                  GscRespond(i, resp, now)
        \/ Finish(i)

Spec == Init /\ [][Next]_vars


\* ------------------------------------------------------- concurrent invocations

ConcThreads == {1, 2}

ConcMethods == {"initialize", "tools/call", "resources/list"}

ConcParams ==
    {[name |-> Text("search_console_query"),
      arguments |-> Dict([query |-> Text("Show me my top 25 queries from last month")])],
     [name |-> Text("search_console_query"), arguments |-> Dict([limit |-> Text("25")])],
     [name |-> Text("nonexistent_tool"), arguments |-> Str(Chars(<<"{", "q">>))]}

ConcQuery ==
    Dict([startDate |-> 1, endDate |-> 2, dimensions |-> <<"date", "page">>,
          rowLimit |-> 25, startRow |-> 0])

ConcLlmResponses ==
    {[kind |-> "exception", exc |-> "ConnectTimeout", msg |-> <<"timed out">>],
     [kind |-> "http", status |-> 200, json |-> Ok([candidates |-> <<>>])],
     [kind |-> "http", status |-> 200, json |-> Ok(Candidates(Bare(ConcQuery)))],
     [kind |-> "http", status |-> 200, json |-> Ok(Candidates(Fenced(ConcQuery)))],
     [kind |-> "http", status |-> 200, json |-> Ok(Candidates(FencedJson(ConcQuery)))]}

ConcGscResponses(body) ==
    {r \in GscResponses(body) : r.kind = "ok" /\ "rows" \in DOMAIN r.response
                                  => Len(r.response.rows) <= 1}

InitConc == InitFor(ConcThreads)

NextConc ==
    \E i \in ConcThreads :
        \/ \E m \in ConcMethods, p \in ConcParams, now \in Clock : HandleRequest(i, m, p, now)
        \/ \E resp \in ConcLlmResponses : LlmRespond(i, resp)
        \/ /\ pc[i] = "gsc"
           /\ \E resp \in ConcGscResponses(calls[i][2].body), now \in Clock :
                  GscRespond(i, resp, now)
        \/ Finish(i)

SpecConc == InitConc /\ [][NextConc]_vars

\* ------------------------------------------------------- reading a state

Invocations == DOMAIN pc

ToolText == Text("search_console_query")

IsToolCall(i) == pc[i] # "idle" /\ req[i].method = "tools/call"

ToolName(i) == get(req[i].params, "name", None)

\* the text of the single content block of a returned tool result
ResultText(i) == out[i].value.content[1].text

IsErrorResult(i) ==
    /\ out[i].kind = "return"
    /\ "isError" \in DOMAIN out[i].value
    /\ out[i].value.isError = TRUE
    /\ Len(out[i].value.content) = 1
    /\ out[i].value.content[1].type = "text"

\* the invocation received an answer from the model / from the reporting API
HasLlmAnswer(i) == Len(recv[i]) >= 2
LlmAnswer(i) == recv[i][2]
HasGscAnswer(i) == Len(recv[i]) >= 3
GscAnswer(i) == recv[i][3]

\* the model's answer carried a text
HasModelText(i) ==
    /\ HasLlmAnswer(i)
    /\ LlmAnswer(i).kind = "http"
    /\ LlmAnswer(i).status = 200
    /\ LlmAnswer(i).json.kind = "ok"
    /\ "candidates" \in DOMAIN LlmAnswer(i).json.value
    /\ Len(LlmAnswer(i).json.value.candidates) > 0
    /\ "content" \in DOMAIN LlmAnswer(i).json.value.candidates[1]
ModelText(i) == LlmAnswer(i).json.value.candidates[1].content.parts[1].text

IssuedGscCall(i) == Len(calls[i]) >= 2
GscBody(i) == calls[i][2].body

Succeeded(i) ==
    /\ pc[i] = "done"
    /\ "gscd" \in DOMAIN loc[i]
    /\ loc[i].gscd.kind = "return"
    /\ loc[i].gscd.value.status = "success"

Report(i) == loc[i].gscd.value.api_response[1]
UpstreamRows(i) == GscAnswer(i).response.rows


\* ------------------------------------------------------- claims

ToolErrorPrefix == "Tool error (search_console_query): "

\* C1: a tools/call of search_console_query always returns and never raises;
\* whenever get_search_console_data raised, at any point of the pipeline, the
\* result is isError with one text block whose text begins with
\* "Tool error (search_console_query): ".
C1_FailuresCaughtAtToolCall ==
    \A i \in Invocations :
        (IsToolCall(i) /\ pc[i] = "done" /\ ToolName(i) = ToolText) =>
            /\ out[i].kind = "return"
            /\ ("gscd" \in DOMAIN loc[i] /\ loc[i].gscd.kind = "raise") =>
                   /\ IsErrorResult(i)
                   /\ Head(ResultText(i)) = ToolErrorPrefix
                   /\ Tail(ResultText(i)) = loc[i].gscd.msg

\* C1 witness: the formatter failed after both network calls had answered,
\* and the failure came back as a tool error
C1_Witness ==
    \E i \in Invocations :
        /\ IsToolCall(i) /\ pc[i] = "done" /\ ToolName(i) = ToolText
        /\ trace[i] # <<>>
        /\ trace[i][Len(trace[i])] = "format_search_console_data"
        /\ loc[i].gscd.kind = "raise"
        /\ IsErrorResult(i)
        /\ Head(ResultText(i)) = ToolErrorPrefix

ZeroRows(i) ==
    /\ HasGscAnswer(i)
    /\ GscAnswer(i).kind = "ok"
    /\ ("rows" \notin DOMAIN GscAnswer(i).response \/ GscAnswer(i).response.rows = <<>>)

\* C2: when the reporting API answers with no rows (rows empty or absent),
\* the invocation ends with status "no_results": nothing raised (no division
\* by zero), no report table, and the tool result is not isError.
C2_ZeroRowsGiveNoResults ==
    \A i \in Invocations :
        (pc[i] = "done" /\ ZeroRows(i)) =>
            /\ loc[i].gscd.kind = "return"
            /\ loc[i].gscd.value.status = "no_results"
            /\ "api_response" \notin DOMAIN loc[i].gscd.value
            /\ ~IsErrorResult(i)

InclusiveDays(q) == q.endDate - q.startDate + 1

HasDate(dims) == \E k \in 1..Len(dims) : dims[k] = "date"

\* C3: whenever the query submitted to the reporting API has "date" among its
\* dimensions, its rowLimit is at least the inclusive number of days of
\* [startDate, endDate], whatever rowLimit the model emitted.
C3_TrendRowLimitEnforced ==
    \A i \in Invocations :
        (IssuedGscCall(i) /\ "dimensions" \in DOMAIN GscBody(i)
                          /\ HasDate(GscBody(i).dimensions)) =>
            GscBody(i).rowLimit >= InclusiveDays(GscBody(i))

FenceChars == {Ch(BT), Ch("j"), Ch("s"), Ch("o"), Ch("n")}

CompleteQuery(v) ==
    v.py = "dict" /\ "startDate" \in DOMAIN v.d /\ "endDate" \in DOMAIN v.d

\* C4: when the model's output is a JSON object between a leading json fence
\* and a trailing fence, the cleaned text holds no remnant of either marker
\* and parses to that object; with both dates present and usable credentials
\* the invocation reaches the reporting call.
C4_FencedJsonIsCleaned ==
    \A i \in Invocations : \A v \in ModelValues :
        (HasModelText(i) /\ v.py = "dict" /\ ModelText(i) = FencedJson(v)) =>
            /\ \A k \in 1..Len(loc[i].clean_api_query) :
                   loc[i].clean_api_query[k] \notin FenceChars
            /\ json_loads(loc[i].clean_api_query) = Ok(v)
            /\ (CompleteQuery(v) /\ gsc_base64_key = GoodKey) => IssuedGscCall(i)

ArgumentsDoNotDecode(params) ==
    /\ "arguments" \in DOMAIN params
    /\ params.arguments.py = "str"
    /\ json_loads(params.arguments.s).kind = "raise"

ToolNotFound(name) ==
    Return([isError |-> TRUE,
            content |-> <<[type |-> "text", text |-> <<"Tool not found: ", py_str(name)>>]>>])

InvalidArguments ==
    Return([isError |-> TRUE,
            content |-> <<[type |-> "text",
                           text |-> <<"Invalid arguments: ",
                                      "expected object or JSON string.">>]>>])

\* C5 as stated: for a tools/call whose name is not search_console_query the
\* result is exactly the "Tool not found: <name>" error, whatever the
\* arguments are, and no network call is made.
C5_UnknownToolAlwaysNotFound ==
    \A i \in Invocations :
        (IsToolCall(i) /\ ToolName(i) # ToolText) =>
            /\ pc[i] = "done"
            /\ out[i] = ToolNotFound(ToolName(i))
            /\ calls[i] = <<>>

\* C5 amended: for a tools/call whose name is not search_console_query no
\* network call is made, and the result is the "Tool not found: <name>" error
\* when the arguments are an object or a string that decodes, and the
\* "Invalid arguments: expected object or JSON string." error when the
\* arguments are a string that does not decode.
C5_UnknownToolNotFoundUnlessUndecodable ==
    \A i \in Invocations :
        (IsToolCall(i) /\ ToolName(i) # ToolText) =>
            /\ pc[i] = "done"
            /\ calls[i] = <<>>
            /\ out[i] = IF ArgumentsDoNotDecode(req[i].params)
                        THEN InvalidArguments
                        ELSE ToolNotFound(ToolName(i))

\* C5 witness: an unknown tool called with a JSON string that decodes
C5_Witness ==
    \E i \in Invocations :
        /\ IsToolCall(i) /\ pc[i] = "done"
        /\ ToolName(i) = Text("nonexistent_tool")
        /\ "arguments" \in DOMAIN req[i].params
        /\ req[i].params.arguments.py = "str"
        /\ ~ArgumentsDoNotDecode(req[i].params)
        /\ out[i] = ToolNotFound(Text("nonexistent_tool"))

\* the arguments carry no usable query: a string that does not decode, a value
\* that is no object, an object without query, or an empty query
NoUsableQuery(params) ==
    LET a == get(params, "arguments", Dict(<<>>)) IN
    IF a.py = "str"
    THEN LET dec == json_loads(a.s) IN
         \/ dec.kind = "raise"
         \/ dec.value.py # "dict"
         \/ Falsy(get(dec.value.d, "query", None))
    ELSE \/ a.py # "dict"
         \/ Falsy(get(a.d, "query", None))

\* C6: a search_console_query call whose arguments lack a query, carry an
\* empty query, or are a string that does not decode ends at once with an
\* isError text block; no query is put in its place, and neither the model
\* call nor the reporting call is issued.
C6_MissingQueryIsTerminal ==
    \A i \in Invocations :
        (IsToolCall(i) /\ ToolName(i) = ToolText /\ NoUsableQuery(req[i].params)) =>
            /\ pc[i] = "done"
            /\ IsErrorResult(i)
            /\ calls[i] = <<>>
            /\ trace[i] = <<>>
            /\ "query" \notin DOMAIN loc[i]

\* C6 witness: an empty query ended as "query is required"
C6_Witness ==
    \E i \in Invocations :
        /\ IsToolCall(i) /\ pc[i] = "done" /\ ToolName(i) = ToolText
        /\ "arguments" \in DOMAIN req[i].params
        /\ req[i].params.arguments.py = "dict"
        /\ "query" \in DOMAIN req[i].params.arguments.d
        /\ req[i].params.arguments.d.query = Text("")
        /\ IsErrorResult(i)
        /\ ResultText(i) = <<ToolErrorPrefix, "query is required">>
        /\ calls[i] = <<>>

\* the sum of a field over the rows at the indices S, in no particular order
RECURSIVE SumAt(_, _, _)
SumAt(S, rows, field) ==
    IF S = {} THEN 0
    ELSE LET k == CHOOSE x \in S : \A y \in S : x >= y IN
         rows[k][field] + SumAt(S \ {k}, rows, field)

\* C7: in every report, Total Clicks is the sum of the clicks of all upstream
\* rows and Total Impressions the sum of their impressions, whatever the
\* order of the rows and the number of dimensions.
C7_TotalsAreExactSums ==
    \A i \in Invocations :
        Succeeded(i) =>
            /\ Report(i).summary_section.total_clicks =
                   SumAt(DOMAIN UpstreamRows(i), UpstreamRows(i), "clicks")
            /\ Report(i).summary_section.total_impressions =
                   SumAt(DOMAIN UpstreamRows(i), UpstreamRows(i), "impressions")

\* C7 witness: a report over two different rows of a two-dimension query
C7_Witness ==
    \E i \in Invocations :
        /\ Succeeded(i)
        /\ Len(GscBody(i).dimensions) = 2
        /\ Len(UpstreamRows(i)) = 2
        /\ UpstreamRows(i)[1].clicks < UpstreamRows(i)[2].clicks
        /\ Report(i).summary_section.total_clicks = 15
        /\ Report(i).summary_section.total_impressions = 140

\* C8: the table has one line per upstream row, in the upstream order, and
\* line k shows keys[0] of row k and then its clicks, impressions, CTR (%)
\* and position, also when two dimensions were requested.
C8_TableShowsFirstKeyPerRow ==
    \A i \in Invocations :
        Succeeded(i) =>
            /\ Len(Report(i).table_body) = Len(UpstreamRows(i))
            /\ \A k \in 1..Len(UpstreamRows(i)) :
                   LET row == UpstreamRows(i)[k]
                       line == Report(i).table_body[k]
                   IN /\ Len(line) = 5
                      /\ line[1] = row.keys[1]
                      /\ line[2] = row.clicks
                      /\ line[3] = row.impressions
                      /\ line[4] * 10 - 5 <= row.ctr /\ row.ctr < line[4] * 10 + 5
                      /\ line[5] * 10 - 5 <= row.position /\ row.position < line[5] * 10 + 5

\* C8 witness: a two-dimension report whose two lines show the first keys of
\* two different rows in the upstream order
C8_Witness ==
    \E i \in Invocations :
        /\ Succeeded(i)
        /\ Len(GscBody(i).dimensions) = 2
        /\ Len(UpstreamRows(i)) = 2
        /\ UpstreamRows(i)[1].keys = <<"k3", "p3">>
        /\ UpstreamRows(i)[2].keys = <<"k1", "p1">>
        /\ Report(i).table_body = <<<<"k3", 12, 100, 1200, 326>>, <<"k1", 3, 40, 750, 125>>>>

DispatchedMethods == {"initialize", "tools/list", "tools/call"}

\* C9: handle_request answers initialize and tools/list at once and hands
\* tools/call to handle_tool_call; for every other method it returns nothing
\* and raises "Method not found: <method>"; initialize, tools/list and unknown
\* methods make no network call.
C9_OnlyThreeMethodsDispatched ==
    \A i \in Invocations :
        pc[i] # "idle" =>
            /\ req[i].method \notin DispatchedMethods =>
                   /\ pc[i] = "done"
                   /\ out[i] = Raise("ValueError", <<"Method not found: ", req[i].method>>)
                   /\ calls[i] = <<>>
            /\ req[i].method = "initialize" =>
                   /\ pc[i] = "done"
                   /\ out[i].kind = "return"
                   /\ "protocolVersion" \in DOMAIN out[i].value
                   /\ calls[i] = <<>>
            /\ req[i].method = "tools/list" =>
                   /\ pc[i] = "done"
                   /\ out[i].kind = "return"
                   /\ "tools" \in DOMAIN out[i].value
                   /\ calls[i] = <<>>
            /\ (req[i].method = "tools/call" /\ pc[i] = "done") =>
                   /\ out[i].kind = "return"
                   /\ "content" \in DOMAIN out[i].value

\* C9 witness: a notification-class method ended as "Method not found"
C9_Witness ==
    \E i \in Invocations :
        /\ pc[i] = "done"
        /\ req[i].method = "notifications/initialized"
        /\ out[i].kind = "raise"
        /\ out[i].msg = <<"Method not found: ", "notifications/initialized">>

\* C10: under any interleaving of invocations the module globals keep the
\* values they were loaded with, and two finished invocations that were given
\* the same method and params and received the same answers have the same
\* result.
C10_NoSharedMutableState ==
    /\ gsc_base64_key = env.SEARCH_CONSOLE_KEY
    /\ site_url = <<"sc-domain", "www.yourdomain.ai">>
    /\ \A i, j \in Invocations :
           (pc[i] = "done" /\ pc[j] = "done" /\ req[i] = req[j] /\ recv[i] = recv[j]) =>
               out[i] = out[j]

\* C10 witness: one invocation has finished with a report while another,
\* started with the same request, is still waiting for the reporting API
C10_Witness ==
    \E i, j \in Invocations :
        /\ i # j
        /\ Succeeded(i)
        /\ pc[j] = "gsc"
        /\ req[i] = req[j]


\* the positions of a step in an invocation's trace
StepsAt(i, step) == {k \in 1..Len(trace[i]) : trace[i][k] = step}

\* every occurrence of step a comes before every occurrence of step b, and
\* a occurs when b does
Before(i, a, b) ==
    /\ StepsAt(i, b) # {} => StepsAt(i, a) # {}
    /\ \A x \in StepsAt(i, a), y \in StepsAt(i, b) : x < y

CallsTo(i, to) == {k \in 1..Len(calls[i]) : calls[i][k].to = to}

HasFence(s) ==
    \E k \in 1..Len(s) - 2 : s[k] = Ch(BT) /\ s[k + 1] = Ch(BT) /\ s[k + 2] = Ch(BT)

\* what the invocation's one answer from the model, fence-cleaned, reads as:
\* exactly the JSON object that was submitted
CleanedTextIsObject(i) ==
    /\ "clean_api_query" \in DOMAIN loc[i]
    /\ ~HasFence(loc[i].clean_api_query)
    /\ \E k \in 1..Len(loc[i].clean_api_query) :
           /\ loc[i].clean_api_query[k] = Doc(Dict(GscBody(i)))
           /\ \A m \in 1..Len(loc[i].clean_api_query) :
                  m # k => loc[i].clean_api_query[m] \in {Ch(" "), Ch("\n")}

\* C11: within one invocation the model call is issued at most once and
\* first; the reporting call is issued at most once, and only after the
\* model's text was fence-cleaned, parsed as an object and found to hold
\* startDate and endDate; formatting happens only after the reporting call
\* answered; an invocation that failed before the reporting call issued no
\* reporting call, and no call is ever issued twice.
C11_PipelineOrderedNoRetry ==
    \A i \in Invocations :
        /\ Len(calls[i]) <= 2
        /\ Cardinality(CallsTo(i, "gemini")) <= 1
        /\ Cardinality(CallsTo(i, "searchanalytics")) <= 1
        /\ Cardinality(StepsAt(i, "requests.post")) = Cardinality(CallsTo(i, "gemini"))
        /\ Cardinality(StepsAt(i, "execute")) = Cardinality(CallsTo(i, "searchanalytics"))
        /\ calls[i] # <<>> => calls[i][1].to = "gemini"
        /\ Before(i, "requests.post", "clean_query")
        /\ Before(i, "clean_query", "json_loads")
        /\ Before(i, "json_loads", "dates")
        /\ Before(i, "dates", "create_gsc_service_obj")
        /\ Before(i, "create_gsc_service_obj", "execute")
        /\ Before(i, "execute", "format_search_console_data")
        /\ IssuedGscCall(i) =>
               /\ calls[i][2].to = "searchanalytics"
               /\ HasModelText(i)
               /\ CleanedTextIsObject(i)
               /\ "startDate" \in DOMAIN GscBody(i)
               /\ "endDate" \in DOMAIN GscBody(i)
        /\ StepsAt(i, "format_search_console_data") # {} =>
               /\ HasGscAnswer(i)
               /\ GscAnswer(i).kind = "ok"
        /\ (pc[i] = "done" /\ "gscd" \in DOMAIN loc[i] /\ loc[i].gscd.kind = "raise"
                            /\ ~HasGscAnswer(i)) =>
               CallsTo(i, "searchanalytics") = {}
        /\ pc[i] = "done" => Len(recv[i]) <= 4

\* C11 witness: an invocation ran the whole pipeline once, in order, and
\* ended with a report
C11_Witness ==
    \E i \in Invocations :
        /\ Succeeded(i)
        /\ Len(calls[i]) = 2
        /\ trace[i] = <<"requests.post", "clean_query", "json_loads", "dates",
                        "create_gsc_service_obj", "execute",
                        "format_search_console_data">>

NoCandidates(i) ==
    /\ HasLlmAnswer(i)
    /\ LlmAnswer(i).kind = "http"
    /\ LlmAnswer(i).status = 200
    /\ LlmAnswer(i).json.kind = "ok"
    /\ \/ "candidates" \notin DOMAIN LlmAnswer(i).json.value
       \/ LlmAnswer(i).json.value.candidates = <<>>

\* C12: when the model answers with a successful HTTP response that carries
\* no candidates (key absent or empty list), get_search_console_data returns
\* status "no_results" and no reporting call is made; handle_tool_call then
\* returns a result with one text block whose text is empty and with no
\* isError field.
C12_NoCandidatesGiveEmptyText ==
    \A i \in Invocations :
        NoCandidates(i) =>
            /\ pc[i] = "done"
            /\ loc[i].gscd.kind = "return"
            /\ loc[i].gscd.value.status = "no_results"
            /\ CallsTo(i, "searchanalytics") = {}
            /\ out[i].kind = "return"
            /\ "isError" \notin DOMAIN out[i].value
            /\ out[i].value.content = <<[type |-> "text", text |-> <<>>]>>

\* C12 witness: an answer without the candidates key ended as an empty text
C12_Witness ==
    \E i \in Invocations :
        /\ NoCandidates(i)
        /\ "candidates" \notin DOMAIN LlmAnswer(i).json.value
        /\ pc[i] = "done"
        /\ loc[i].gscd.value.status = "no_results"
        /\ ResultText(i) = <<>>


====
